---------------------------- MODULE Spec2Model ----------------------------
(***************************************************************************)
(* A model of the Calico CNI plugin, src/calico_cni/calico_cni.py.         *)
(*                                                                         *)
(* The plugin is a one-shot process: the container runtime starts it once  *)
(* per container lifecycle event.  The model runs a bounded number of      *)
(* invocations one after the other against the same external systems: the *)
(* IPAM binary's allocations, the Calico datastore (endpoints, profile),   *)
(* and the host's veth interfaces.  Within one invocation every call to an *)
(* external collaborator is one action, so the partial states a failing    *)
(* step leaves behind are states of the model.  What a collaborator        *)
(* answers (an exit code, an exception) is chosen nondeterministically.    *)
(***************************************************************************)
EXTENDS Integers, Sequences, FiniteSets, TLC

(***************************************************************************)
(* Bounds of the model.                                                    *)
(***************************************************************************)
MaxInvocations == 3
MaxArgsLen == 7

(***************************************************************************)
(* The inputs an invocation is started with.                               *)
(***************************************************************************)
CNI_CMD_ADD == "ADD"
CNI_CMD_DELETE == "DEL"
Commands == {CNI_CMD_ADD, CNI_CMD_DELETE, "VERSION"}
ContainerIds == {"abc", "xyz"}

\* The key of CNI_ARGS that selects the Kubernetes variants, as a sequence of
\* characters; and the values of CNI_ARGS the runtime passes: the empty
\* string and "K8S_POD_NAME=p".
K8S_POD_NAME == <<"K", "8", "S", "_", "P", "O", "D", "_", "N", "A", "M", "E">>
CniArgsEnv == {<<>>, K8S_POD_NAME \o <<"=", "p">>}

\* The environment of the process, as far as the constructor reads it after
\* CNI_COMMAND and CNI_CONTAINERID: a mapping from the names of the
\* variables that are set to their values.
FullEnv(raw) ==
    [CNI_NETNS |-> "/proc/7/ns/net", CNI_IFNAME |-> "eth0", CNI_ARGS |-> raw]
Without(e, k) == [x \in DOMAIN e \ {k} |-> e[x]]
EnvNames == {"CNI_NETNS", "CNI_IFNAME", "CNI_ARGS"}
Envs == {FullEnv(raw) : raw \in CniArgsEnv}
          \cup {Without(FullEnv(<<>>), k) : k \in EnvNames}
NoEnv == [x \in {} |-> ""]

\* Network names of the network config, as sequences of characters; the
\* second holds a '/'.
NetworkNames == {<<"n", "e", "t", "1">>, <<"n", "e", "t", "/", "1">>}

\* CNI_PATH values, as sequences of path components and ':' separators;
\* ipam.type of the network config; and the directories that hold a regular
\* file named after ipam.type.
CniPaths == {<<"/none">>, <<"/none", ":", "/opt/cni", ":", "/usr/lib/cni">>}
IpamType == "calico-ipam"
IpamDirs == {<<"/opt/cni">>, <<"/usr/lib/cni">>}

\* What the IPAM child can write to its standard output.
IpamOutputs ==
    { "{\"ip4\":{\"ip\":\"10.0.0.5/24\"}}",
      "{\"ip4\": {\"ip\": \"10.0.0.5/24\"}}",
      "{}",
      "{\"ip4\":{\"ip\":\"10.0.0.5/240\"}}",
      "pool exhausted" }

\* The non-zero exit codes of the IPAM child.
IpamFailCodes == {2}

\* Python's None, for self.ipam_result; and for the endpoint object, which
\* the model holds as the endpoint's id, a positive number.
None == [none |-> TRUE]
NoEndpoint == 0

VARIABLES
    \* ---- the external systems
    ipam_alloc,      \* container ids the IPAM binary holds an allocation for
    endpoints,       \* the datastore: set of [wl, id, mac, prof]
    veths,           \* endpoint ids whose host-side veth exists
    profile_exists,  \* whether the datastore holds the network's profile
    \* ---- the plugin process (CniPlugin and main)
    pc,              \* position of the running invocation
    inv,             \* number of invocations started so far
    env,             \* the CNI_* variables of the process's environment
    command, container_id, cni_args, cni_path, network_name,
    policy_driver, container_engine,
    plugin_path,     \* the IPAM binary _call_ipam_plugin found, or ""
    ipam_return,     \* what _call_ipam_plugin returned: <<returncode, stdout>>
    ipam_result,     \* self.ipam_result: the parsed IPAM document
    endpoint,        \* the endpoint object the plugin holds (its id)
    rc,              \* the exit code of the process
    stdout,          \* what the process printed to standard output
    \* ---- observation of the run
    calls,           \* the external calls of this invocation, in order
    fail_step,       \* the step at which this invocation failed, or ""
    start_ext,       \* the external systems when this invocation started
    prev             \* the previous invocation: its command, rc and start_ext,
                     \* whether it printed a result, and whether this one
                     \* has the same container id and inputs

ext_vars == <<ipam_alloc, endpoints, veths, profile_exists>>
proc_vars == <<env, command, container_id, cni_args, cni_path, network_name,
               policy_driver, container_engine>>
ipam_vars == <<plugin_path, ipam_return, ipam_result>>
vars == <<ipam_alloc, endpoints, veths, profile_exists, pc, inv, env, command,
          container_id, cni_args, cni_path, network_name, policy_driver,
          container_engine, plugin_path, ipam_return, ipam_result, endpoint,
          rc, stdout, calls, fail_step, start_ext, prev>>

\* The state of every external system, as one value.
External == [alloc |-> ipam_alloc, eps |-> endpoints, veths |-> veths,
             profile |-> profile_exists]

(***************************************************************************)
(* Pure helpers of the plugin.                                             *)
(***************************************************************************)

\* json.loads raises ValueError on a text that is not JSON.
JsonValid(s) == s # "pool exhausted"

\* json.loads: the value a JSON text denotes (whitespace is not part of it).
JsonLoads(s) ==
    CASE s = "{\"ip4\":{\"ip\":\"10.0.0.5/24\"}}"    -> [ip4 |-> [ip |-> "10.0.0.5/24"]]
      [] s = "{\"ip4\": {\"ip\": \"10.0.0.5/24\"}}"  -> [ip4 |-> [ip |-> "10.0.0.5/24"]]
      [] s = "{\"ip4\":{\"ip\":\"10.0.0.5/240\"}}"   -> [ip4 |-> [ip |-> "10.0.0.5/240"]]
      [] OTHER                                       -> <<>>

\* json.dumps with its default separators (", " and ": ").
JsonDumps(v) ==
    IF DOMAIN v = {} THEN "{}"
    ELSE IF v.ip4.ip = "10.0.0.5/24" THEN "{\"ip4\": {\"ip\": \"10.0.0.5/24\"}}"
    ELSE "{\"ip4\": {\"ip\": \"10.0.0.5/240\"}}"

\* self.ipam_result["ip4"]["ip"] raises KeyError when a key is missing.
HasIp4Ip(v) == "ip4" \in DOMAIN v /\ "ip" \in DOMAIN v["ip4"]

\* netaddr.IPNetwork raises AddrFormatError on a malformed CIDR.
ValidCidr(s) == s = "10.0.0.5/24"

\* str.split: the pieces of s between the occurrences of sep.
RECURSIVE SplitFrom(_, _, _, _)
SplitFrom(s, sep, i, piece) ==
    IF i > Len(s) THEN <<piece>>
    ELSE IF s[i] = sep THEN <<piece>> \o SplitFrom(s, sep, i + 1, <<>>)
    ELSE SplitFrom(s, sep, i + 1, Append(piece, s[i]))

Split(s, sep) == SplitFrom(s, sep, 1, <<>>)

\* os.path.abspath(os.path.join(path, plugin_type)) and os.path.isfile.
JoinPath(dir, type) == dir \o <<"/", type>>
IsFile(file) == \E dir \in IpamDirs : file = JoinPath(dir, IpamType)

\* Mutant of FindIpamPluginFrom: the loop does not stop at the first file.
RECURSIVE FindIpamPluginLastFrom(_, _)
FindIpamPluginLastFrom(dirs, i) ==
    IF i > Len(dirs) THEN <<>>
    ELSE IF FindIpamPluginLastFrom(dirs, i + 1) # <<>>
         THEN FindIpamPluginLastFrom(dirs, i + 1)
    ELSE IF IsFile(JoinPath(dirs[i], IpamType)) THEN JoinPath(dirs[i], IpamType)
    ELSE <<>>

\* _find_ipam_plugin: the loop over the directories of CNI_PATH, which stops
\* at the first one that holds a regular file named after ipam.type; the
\* empty string when there is none.
RECURSIVE FindIpamPluginFrom(_, _)
FindIpamPluginFrom(dirs, i) ==
    IF i > Len(dirs) THEN <<>>
    ELSE IF IsFile(JoinPath(dirs[i], IpamType)) THEN JoinPath(dirs[i], IpamType)
    ELSE FindIpamPluginFrom(dirs, i + 1)

FindIpamPlugin(path) == FindIpamPluginFrom(Split(path, ":"), 1)

\* _find_ipam_plugin on each value of CNI_PATH, as a table: a constant, which
\* is evaluated once.
IpamPluginOf == [path \in CniPaths |-> FindIpamPlugin(path)]

\* The characters of the two classes of CNI_ARGS_RE, [a-zA-Z0-9/\.\-\_ ],
\* among the characters the model writes CNI_ARGS with.
ArgsClass == {"a", "b", " ", "p", "K", "8", "S", "_", "P", "O", "D", "N",
              "A", "M", "E"}

\* The length of the longest run of class characters of s that starts at
\* position i: what a greedy [...]+ takes.
RECURSIVE RunLen(_, _)
RunLen(s, i) ==
    IF i > Len(s) THEN 0
    ELSE IF s[i] \notin ArgsClass THEN 0
    ELSE 1 + RunLen(s, i + 1)

\* One attempt of CNI_ARGS_RE at position i.  The key is a run followed by
\* '=', the value a run followed by ';' or the end of the string; a shorter
\* run never helps, since the character after it is a class character.
\* The result is the position after the match, 0 when there is none.
KeyEnd(s, i) == i + RunLen(s, i)
ValueEnd(s, i) == LET k == KeyEnd(s, i) IN k + 1 + RunLen(s, k + 1)
MatchAt(s, i) ==
    LET k == KeyEnd(s, i)
        v == ValueEnd(s, i)
    IN  IF k = i THEN 0
        ELSE IF k > Len(s) THEN 0
        ELSE IF s[k] # "=" THEN 0
        ELSE IF v = k + 1 THEN 0
        ELSE IF v > Len(s) THEN v
        ELSE IF s[v] = ";" THEN v + 1
        ELSE 0

\* The two groups of the match of CNI_ARGS_RE at position i.
GroupsAt(s, i) ==
    << SubSeq(s, i, KeyEnd(s, i) - 1),
       SubSeq(s, KeyEnd(s, i) + 1, ValueEnd(s, i) - 1) >>

\* Mutant of FindAllFrom: the scan stops after its first match.
RECURSIVE FindFirstFrom(_, _)
FindFirstFrom(s, i) ==
    LET m == MatchAt(s, i)
    IN  IF i > Len(s) THEN <<>>
        ELSE IF m = 0 THEN FindFirstFrom(s, i + 1)
        ELSE <<GroupsAt(s, i)>>

\* CNI_ARGS_RE.findall: the groups of the non-overlapping matches, scanning
\* from the left; a position without a match is skipped.
RECURSIVE FindAllFrom(_, _)
FindAllFrom(s, i) ==
    LET m == MatchAt(s, i)
    IN  IF i > Len(s) THEN <<>>
        ELSE IF m = 0 THEN FindAllFrom(s, i + 1)
        ELSE <<GroupsAt(s, i)>> \o FindAllFrom(s, m)

FindAll(s) == FindAllFrom(s, 1)

\* str.strip: s without its leading and trailing spaces.
RECURSIVE LStrip(_)
LStrip(s) ==
    IF s = <<>> THEN s
    ELSE IF s[1] # " " THEN s
    ELSE LStrip(Tail(s))

RECURSIVE RStrip(_)
RStrip(s) ==
    IF s = <<>> THEN s
    ELSE IF s[Len(s)] # " " THEN s
    ELSE RStrip(SubSeq(s, 1, Len(s) - 1))

Strip(s) == LStrip(RStrip(s))

\* A dictionary after d[k] = v.
DictSet(d, k, v) == [x \in DOMAIN d \cup {k} |-> IF x = k THEN v ELSE d[x]]
EmptyDict == [x \in {} |-> <<>>]

\* parse_cni_args: the loop over the groups findall returns, which stores
\* each stripped value under its stripped key.
RECURSIVE ParseCniArgsFrom(_, _, _)
ParseCniArgsFrom(groups, i, args_to_return) ==
    IF i > Len(groups) THEN args_to_return
    ELSE ParseCniArgsFrom(groups, i + 1,
             DictSet(args_to_return, Strip(groups[i][1]), Strip(groups[i][2])))

ParseCniArgs(cni_args_env) ==
    ParseCniArgsFrom(FindAll(cni_args_env), 1, EmptyDict)

\* parse_cni_args on each value of CNI_ARGS the runtime passes, as a table:
\* a constant, which is evaluated once.
CniArgsOf == [raw \in CniArgsEnv |-> ParseCniArgs(raw)]

\* policy_drivers.DefaultPolicyDriver raises ValueError on a network name
\* with a character outside [A-Za-z0-9._-].
NameChars == {"n", "e", "t", "1", ".", "_", "-"}
ValidNetworkName(name) == \A i \in 1..Len(name) : name[i] \in NameChars

\* Mutant of GetPolicyDriver: the driver's ValueError is ignored.
GetPolicyDriverLenient(args, name) ==
    IF K8S_POD_NAME \in DOMAIN args THEN "KubernetesDefaultPolicyDriver"
    ELSE "DefaultPolicyDriver"

\* _get_policy_driver: which driver the constructor builds.
GetPolicyDriver(args, name) ==
    IF K8S_POD_NAME \in DOMAIN args THEN "KubernetesDefaultPolicyDriver"
    ELSE IF ValidNetworkName(name) THEN "DefaultPolicyDriver"
    ELSE "ValueError"

\* Mutant of GetContainerEngine: the default engine whatever CNI_ARGS holds.
GetContainerEngineDefault(args) == "DefaultEngine"

\* _get_container_engine: which engine probe the constructor builds.
GetContainerEngine(args) ==
    IF K8S_POD_NAME \in DOMAIN args THEN "DockerEngine" ELSE "DefaultEngine"

\* The answers uses_host_networking can give: DefaultEngine answers false
\* unconditionally, DockerEngine asks the Docker runtime.
HostNetworkingAnswers(engine) ==
    IF engine = "DockerEngine" THEN BOOLEAN ELSE {FALSE}

\* The endpoints the datastore holds under (HOSTNAME, ORCHESTRATOR_ID, id).
EndpointsOf(id) == {e \in endpoints : e.wl = id}

(***************************************************************************)
(* The initial state: no invocation has run, the external systems are      *)
(* empty.                                                                  *)
(***************************************************************************)
InitButEnv ==
    /\ ipam_alloc = {}
    /\ endpoints = {}
    /\ veths = {}
    /\ profile_exists = FALSE
    /\ pc = "idle"
    /\ inv = 0
    /\ command = ""
    /\ container_id = ""
    /\ cni_args = EmptyDict
    /\ cni_path = <<>>
    /\ network_name = <<>>
    /\ policy_driver = ""
    /\ container_engine = ""
    /\ plugin_path = <<>>
    /\ ipam_return = None
    /\ ipam_result = None
    /\ endpoint = NoEndpoint
    /\ rc = 0
    /\ stdout = <<>>
    /\ calls = <<>>
    /\ fail_step = ""
    /\ start_ext = None
    /\ prev = None

Init ==
    /\ env = NoEnv
    /\ InitButEnv

\* The process ends with exit code `code`; `step` names the failing step.
Terminate(code, step) ==
    /\ pc' = "done"
    /\ rc' = code
    /\ fail_step' = step

\* The process moves on to position `next`.
Goto(next) ==
    /\ pc' = next
    /\ UNCHANGED <<rc, fail_step>>

\* An external call and its outcome are appended to the invocation's calls.
Called(op, res) == calls' = Append(calls, <<op, res>>)

(***************************************************************************)
(* main and CniPlugin.__init__: the runtime starts the plugin with an      *)
(* environment and a network config.  The constructor reads CNI_COMMAND,   *)
(* CNI_CONTAINERID, CNI_NETNS, CNI_IFNAME, CNI_ARGS and CNI_PATH from the  *)
(* environment in that order, each with env[...]: a variable that is not   *)
(* set raises KeyError, which nothing catches, and the process exits with  *)
(* 1.  It then builds the policy driver, which exits with 1 on an invalid  *)
(* network name, and the container engine.                                 *)
(***************************************************************************)
\* The constructor after self.parse_cni_args(env[CNI_ARGS_ENV]) has returned
\* args.
Construct(args, path, name) ==
    /\ cni_args' = args
    /\ cni_path' = path
    /\ network_name' = name
    /\ policy_driver' = GetPolicyDriver(args, name)
    /\ container_engine' =
          IF GetPolicyDriver(args, name) = "ValueError" THEN ""
          ELSE GetContainerEngine(args)
    /\ IF GetPolicyDriver(args, name) = "ValueError"
       THEN Terminate(1, "policy_driver")
       ELSE /\ pc' = "execute"
            /\ rc' = 0
            /\ fail_step' = ""

\* The constructor when env[...] raises KeyError: the attributes after the
\* failing lookup are never set.
ConstructKeyError ==
    /\ cni_args' = EmptyDict
    /\ cni_path' = <<>>
    /\ network_name' = <<>>
    /\ policy_driver' = ""
    /\ container_engine' = ""
    /\ Terminate(1, "environment")

Main ==
    /\ pc \in {"idle", "done"}
    /\ inv < MaxInvocations
    /\ \E e \in Envs :
        /\ env' = e
        /\ \E cmd \in Commands, id \in ContainerIds :
              command' = cmd /\ container_id' = id
        /\ IF EnvNames \subseteq DOMAIN e
           THEN LET args == CniArgsOf[e.CNI_ARGS]
                IN  \E path \in CniPaths, name \in NetworkNames :
                       Construct(args, path, name)
           ELSE ConstructKeyError
    /\ inv' = inv + 1
    /\ plugin_path' = <<>>
    /\ ipam_return' = None
    /\ ipam_result' = None
    /\ endpoint' = NoEndpoint
    /\ stdout' = <<>>
    /\ calls' = <<>>
    /\ start_ext' = External
    /\ prev' = IF pc = "idle" THEN None
               ELSE [command |-> command, rc |-> rc, start_ext |-> start_ext,
                     printed |-> stdout # <<>>,
                     same |-> /\ container_id' = container_id
                              /\ env' = env
                              /\ cni_args' = cni_args
                              /\ cni_path' = cni_path
                              /\ network_name' = network_name]
    /\ UNCHANGED ext_vars

\* What an action of the running invocation leaves alone.
Frame == UNCHANGED <<inv, proc_vars, start_ext, prev>>

(***************************************************************************)
(* _execute: dispatch on CNI_COMMAND.  A command that is neither ADD nor   *)
(* DEL fails the assertion, which execute turns into exit code 1.          *)
(***************************************************************************)
\* Mutant of Execute: without the assertion every command but ADD deletes.
ExecuteUnasserted ==
    /\ pc = "execute"
    /\ IF command = CNI_CMD_ADD THEN Goto("add") ELSE Goto("delete")
    /\ Frame
    /\ UNCHANGED <<ext_vars, ipam_vars, endpoint, stdout, calls>>

Execute ==
    /\ pc = "execute"
    /\ IF command = CNI_CMD_ADD THEN Goto("add")
       ELSE IF command = CNI_CMD_DELETE THEN Goto("delete")
       ELSE Terminate(1, "command")
    /\ Frame
    /\ UNCHANGED <<ext_vars, ipam_vars, endpoint, stdout, calls>>

(***************************************************************************)
(* add: the host-networking probe.                                         *)
(***************************************************************************)
\* Mutant of AddProbe: the probe's answer is ignored.
AddProbeIgnored ==
    /\ pc = "add"
    /\ \E host \in HostNetworkingAnswers(container_engine) :
          Called("uses_host_networking", IF host THEN "host" ELSE "no")
    /\ Goto("assign_ip")
    /\ Frame
    /\ UNCHANGED <<ext_vars, ipam_vars, endpoint, stdout>>

AddProbe ==
    /\ pc = "add"
    /\ \E host \in HostNetworkingAnswers(container_engine) :
          IF host
          THEN Terminate(0, "") /\ Called("uses_host_networking", "host")
          ELSE Goto("assign_ip") /\ Called("uses_host_networking", "no")
    /\ Frame
    /\ UNCHANGED <<ext_vars, ipam_vars, endpoint, stdout>>

(***************************************************************************)
(* _assign_ip, step 1 of add: _call_ipam_plugin, then the parsing of the   *)
(* child's output.  A child that exits 0 has assigned an address.          *)
(***************************************************************************)
AssignIpNotFound ==
    /\ pc = "assign_ip"
    /\ LET found == IpamPluginOf[cni_path]
       IN  found = <<>> /\ plugin_path' = found
    /\ Terminate(1, "ipam_not_found")
    /\ Frame
    /\ UNCHANGED <<ext_vars, ipam_return, ipam_result, endpoint, stdout, calls>>

AssignIpSpawnError ==
    /\ pc = "assign_ip"
    /\ LET found == IpamPluginOf[cni_path]
       IN  found # <<>> /\ plugin_path' = found
    /\ Terminate(1, "ipam_spawn")
    /\ Frame
    /\ UNCHANGED <<ext_vars, ipam_return, ipam_result, endpoint, stdout, calls>>

\* Mutant of AssignIpChildFails: the child's exit code is replaced by 1.
AssignIpChildFailsWithOne ==
    /\ pc = "assign_ip"
    /\ LET found == IpamPluginOf[cni_path]
       IN  found # <<>> /\ plugin_path' = found
    /\ \E code \in IpamFailCodes :
          /\ ipam_return' = <<code, "">>
          /\ Terminate(1, "ipam_rc")
    /\ Called("ipam", "failed")
    /\ Frame
    /\ UNCHANGED <<ext_vars, ipam_result, endpoint, stdout>>

AssignIpChildFails ==
    /\ pc = "assign_ip"
    /\ LET found == IpamPluginOf[cni_path]
       IN  found # <<>> /\ plugin_path' = found
    /\ \E code \in IpamFailCodes :
          /\ ipam_return' = <<code, "">>
          /\ Terminate(code, "ipam_rc")
    /\ Called("ipam", "failed")
    /\ Frame
    /\ UNCHANGED <<ext_vars, ipam_result, endpoint, stdout>>

\* What _assign_ip does with the output of a child that exited 0.
AssignIpParse(out) ==
    IF ~JsonValid(out)
    THEN /\ Terminate(1, "ipam_parse")
         /\ UNCHANGED ipam_result
    ELSE /\ ipam_result' = JsonLoads(out)
         /\ IF ~HasIp4Ip(JsonLoads(out)) THEN Terminate(1, "ipam_parse")
            ELSE IF ~ValidCidr(JsonLoads(out).ip4.ip)
                 THEN Terminate(1, "ipam_parse")
            ELSE Goto("create_endpoint")

AssignIpChildOk ==
    /\ pc = "assign_ip"
    /\ LET found == IpamPluginOf[cni_path]
       IN  found # <<>> /\ plugin_path' = found
    /\ ipam_alloc' = ipam_alloc \cup {container_id}
    /\ \E out \in IpamOutputs :
          /\ ipam_return' = <<0, out>>
          /\ AssignIpParse(out)
    /\ Called("ipam", "ok")
    /\ Frame
    /\ UNCHANGED <<endpoints, veths, profile_exists, endpoint, stdout>>

(***************************************************************************)
(* _create_endpoint, step 2 of add.  The datastore raises AddrFormatError  *)
(* (address family unsupported) or KeyError (configuration missing), and   *)
(* the plugin exits with 1.                                                *)
(***************************************************************************)
CreateEndpointOk ==
    /\ pc = "create_endpoint"
    /\ endpoints' = endpoints \cup
          {[wl |-> container_id, id |-> inv, mac |-> FALSE, prof |-> FALSE]}
    /\ endpoint' = inv
    /\ Goto("provision_veth")
    /\ Called("create_endpoint", "ok")
    /\ Frame
    /\ UNCHANGED <<ipam_alloc, veths, profile_exists, ipam_vars, stdout>>

CreateEndpointFails ==
    /\ pc = "create_endpoint"
    /\ Terminate(1, "create_endpoint")
    /\ \E err \in {"AddrFormatError", "KeyError"} :
          Called("create_endpoint", err)
    /\ Frame
    /\ UNCHANGED <<ext_vars, ipam_vars, endpoint, stdout>>

(***************************************************************************)
(* _provision_veth, step 3 of add: endpoint.provision_veth, then           *)
(* set_endpoint to record the MAC.  Neither call is guarded: an exception  *)
(* reaches execute, which returns 1.  A provisioning that fails may have   *)
(* created the veth already.                                               *)
(***************************************************************************)
\* Mutant of ProvisionVethOk: the MAC is not recorded with set_endpoint.
ProvisionVethOnly ==
    /\ pc = "provision_veth"
    /\ veths' = veths \cup {endpoint}
    /\ Goto("set_profile")
    /\ Called("provision_veth", "ok")
    /\ Frame
    /\ UNCHANGED <<ipam_alloc, endpoints, profile_exists, ipam_vars,
                   endpoint, stdout>>

ProvisionVethOk ==
    /\ pc = "provision_veth"
    /\ veths' = veths \cup {endpoint}
    /\ Goto("set_endpoint")
    /\ Called("provision_veth", "ok")
    /\ Frame
    /\ UNCHANGED <<ipam_alloc, endpoints, profile_exists, ipam_vars,
                   endpoint, stdout>>

ProvisionVethFails ==
    /\ pc = "provision_veth"
    /\ \E left \in BOOLEAN :
          veths' = IF left THEN veths \cup {endpoint} ELSE veths
    /\ Terminate(1, "provision_veth")
    /\ Called("provision_veth", "error")
    /\ Frame
    /\ UNCHANGED <<ipam_alloc, endpoints, profile_exists, ipam_vars,
                   endpoint, stdout>>

\* The datastore after set_endpoint has written the endpoint with its MAC.
WithMac(eps, id) ==
    {IF e.id = id THEN [e EXCEPT !.mac = TRUE] ELSE e : e \in eps}

SetEndpointOk ==
    /\ pc = "set_endpoint"
    /\ endpoints' = WithMac(endpoints, endpoint)
    /\ Goto("set_profile")
    /\ Called("set_endpoint", "ok")
    /\ Frame
    /\ UNCHANGED <<ipam_alloc, veths, profile_exists, ipam_vars, endpoint,
                   stdout>>

SetEndpointFails ==
    /\ pc = "set_endpoint"
    /\ Terminate(1, "set_endpoint")
    /\ Called("set_endpoint", "error")
    /\ Frame
    /\ UNCHANGED <<ext_vars, ipam_vars, endpoint, stdout>>

(***************************************************************************)
(* policy_driver.set_profile, step 4 of add.  The per-network driver makes *)
(* sure the profile exists and attaches it to the endpoint; the Kubernetes *)
(* driver does nothing.                                                    *)
(***************************************************************************)
WithProfile(driver, eps, id) ==
    IF driver = "DefaultPolicyDriver"
    THEN {IF e.id = id THEN [e EXCEPT !.prof = TRUE] ELSE e : e \in eps}
    ELSE eps

ProfileAfterSet(driver, exists) ==
    IF driver = "DefaultPolicyDriver" THEN TRUE ELSE exists

SetProfileOk ==
    /\ pc = "set_profile"
    /\ endpoints' = WithProfile(policy_driver, endpoints, endpoint)
    /\ profile_exists' = ProfileAfterSet(policy_driver, profile_exists)
    /\ Goto("print")
    /\ Called("set_profile", "ok")
    /\ Frame
    /\ UNCHANGED <<ipam_alloc, veths, ipam_vars, endpoint, stdout>>

SetProfileFails ==
    /\ pc = "set_profile"
    /\ policy_driver = "DefaultPolicyDriver"
    /\ Terminate(1, "set_profile")
    /\ Called("set_profile", "error")
    /\ Frame
    /\ UNCHANGED <<ext_vars, ipam_vars, endpoint, stdout>>

(***************************************************************************)
(* Step 5 of add: print json.dumps(self.ipam_result); add returns and      *)
(* execute returns 0.                                                      *)
(***************************************************************************)
\* Mutant of PrintResult: the result is printed twice.
PrintResultTwice ==
    /\ pc = "print"
    /\ stdout' = stdout \o <<JsonDumps(ipam_result), JsonDumps(ipam_result)>>
    /\ Terminate(0, "")
    /\ Called("print", "ok")
    /\ Frame
    /\ UNCHANGED <<ext_vars, ipam_vars, endpoint>>

PrintResult ==
    /\ pc = "print"
    /\ stdout' = Append(stdout, JsonDumps(ipam_result))
    /\ Terminate(0, "")
    /\ Called("print", "ok")
    /\ Frame
    /\ UNCHANGED <<ext_vars, ipam_vars, endpoint>>

(***************************************************************************)
(* _release_ip, step 1 of delete: _call_ipam_plugin; a non-zero exit code  *)
(* of the child is logged and delete goes on.  A plugin that is not found  *)
(* exits with 1 inside _call_ipam_plugin, as on ADD.                       *)
(***************************************************************************)
ReleaseIpNotFound ==
    /\ pc = "delete"
    /\ LET found == IpamPluginOf[cni_path]
       IN  found = <<>> /\ plugin_path' = found
    /\ Terminate(1, "ipam_not_found")
    /\ Frame
    /\ UNCHANGED <<ext_vars, ipam_return, ipam_result, endpoint, stdout, calls>>

ReleaseIpSpawnError ==
    /\ pc = "delete"
    /\ LET found == IpamPluginOf[cni_path]
       IN  found # <<>> /\ plugin_path' = found
    /\ Terminate(1, "ipam_spawn")
    /\ Frame
    /\ UNCHANGED <<ext_vars, ipam_return, ipam_result, endpoint, stdout, calls>>

ReleaseIpChildFails ==
    /\ pc = "delete"
    /\ LET found == IpamPluginOf[cni_path]
       IN  found # <<>> /\ plugin_path' = found
    /\ \E code \in IpamFailCodes : ipam_return' = <<code, "">>
    /\ Goto("get_endpoint")
    /\ Called("ipam", "failed")
    /\ Frame
    /\ UNCHANGED <<ext_vars, ipam_result, endpoint, stdout>>

ReleaseIpChildOk ==
    /\ pc = "delete"
    /\ LET found == IpamPluginOf[cni_path]
       IN  found # <<>> /\ plugin_path' = found
    /\ ipam_return' = <<0, "">>
    /\ ipam_alloc' = ipam_alloc \ {container_id}
    /\ Goto("get_endpoint")
    /\ Called("ipam", "ok")
    /\ Frame
    /\ UNCHANGED <<endpoints, veths, profile_exists, ipam_result, endpoint,
                   stdout>>

(***************************************************************************)
(* _get_endpoint, step 2 of delete: no endpoint (KeyError) ends the        *)
(* invocation with 0, several (MultipleEndpointsMatch) end it with 1.      *)
(***************************************************************************)
\* Mutant of GetEndpointNotFound: a missing endpoint is fatal.
GetEndpointNotFoundFatal ==
    /\ pc = "get_endpoint"
    /\ EndpointsOf(container_id) = {}
    /\ Terminate(1, "not_found")
    /\ Called("get_endpoint", "NotFound")
    /\ Frame
    /\ UNCHANGED <<ext_vars, ipam_vars, endpoint, stdout>>

GetEndpointNotFound ==
    /\ pc = "get_endpoint"
    /\ EndpointsOf(container_id) = {}
    /\ Terminate(0, "")
    /\ Called("get_endpoint", "NotFound")
    /\ Frame
    /\ UNCHANGED <<ext_vars, ipam_vars, endpoint, stdout>>

\* Mutant of GetEndpointAmbiguous: delete goes on with one of the endpoints.
GetEndpointAmbiguousGoesOn ==
    /\ pc = "get_endpoint"
    /\ Cardinality(EndpointsOf(container_id)) > 1
    /\ \E e \in EndpointsOf(container_id) : endpoint' = e.id
    /\ Goto("remove_veth")
    /\ Called("get_endpoint", "Ambiguous")
    /\ Frame
    /\ UNCHANGED <<ext_vars, ipam_vars, stdout>>

GetEndpointAmbiguous ==
    /\ pc = "get_endpoint"
    /\ Cardinality(EndpointsOf(container_id)) > 1
    /\ Terminate(1, "ambiguous")
    /\ Called("get_endpoint", "Ambiguous")
    /\ Frame
    /\ UNCHANGED <<ext_vars, ipam_vars, endpoint, stdout>>

\* Mutant of GetEndpointFound: delete goes on whatever the lookup found.
GetEndpointAny ==
    /\ pc = "get_endpoint"
    /\ \E id \in {e.id : e \in endpoints} : endpoint' = id
    /\ Goto("remove_veth")
    /\ Called("get_endpoint", "ok")
    /\ Frame
    /\ UNCHANGED <<ext_vars, ipam_vars, stdout>>

GetEndpointFound ==
    /\ pc = "get_endpoint"
    /\ \E e \in EndpointsOf(container_id) :
          /\ EndpointsOf(container_id) = {e}
          /\ endpoint' = e.id
    /\ Goto("remove_veth")
    /\ Called("get_endpoint", "ok")
    /\ Frame
    /\ UNCHANGED <<ext_vars, ipam_vars, stdout>>

(***************************************************************************)
(* netns.remove_veth, step 3 of delete.  The call is not guarded: an error *)
(* reaches execute, which returns 1.                                       *)
(***************************************************************************)
RemoveVethOk ==
    /\ pc = "remove_veth"
    /\ veths' = veths \ {endpoint}
    /\ Goto("remove_endpoint")
    /\ Called("remove_veth", "ok")
    /\ Frame
    /\ UNCHANGED <<ipam_alloc, endpoints, profile_exists, ipam_vars,
                   endpoint, stdout>>

RemoveVethFails ==
    /\ pc = "remove_veth"
    /\ Terminate(1, "remove_veth")
    /\ Called("remove_veth", "error")
    /\ Frame
    /\ UNCHANGED <<ext_vars, ipam_vars, endpoint, stdout>>

(***************************************************************************)
(* _remove_endpoint, step 4 of delete: remove_workload; a KeyError (the    *)
(* workload is gone already) is logged and delete goes on.                 *)
(***************************************************************************)
\* Mutant of RemoveEndpoint: the workload is not removed.
RemoveEndpointKeeps ==
    /\ pc = "remove_endpoint"
    /\ Goto("remove_profile")
    /\ \E res \in {"ok", "NotFound"} : Called("remove_workload", res)
    /\ Frame
    /\ UNCHANGED <<ext_vars, ipam_vars, endpoint, stdout>>

RemoveEndpoint ==
    /\ pc = "remove_endpoint"
    /\ endpoints' = endpoints \ EndpointsOf(container_id)
    /\ Goto("remove_profile")
    /\ \E res \in {"ok", "NotFound"} : Called("remove_workload", res)
    /\ Frame
    /\ UNCHANGED <<ipam_alloc, veths, profile_exists, ipam_vars, endpoint,
                   stdout>>

(***************************************************************************)
(* policy_driver.remove_profile, step 5 of delete.  The per-network driver *)
(* deletes the profile when no endpoint refers to it any more; the         *)
(* Kubernetes driver does nothing.  The call is not guarded.  After it     *)
(* delete returns and execute returns 0.                                   *)
(***************************************************************************)
ProfileAfterRemove(driver, exists, eps) ==
    IF driver = "DefaultPolicyDriver"
    THEN exists /\ \E e \in eps : e.prof
    ELSE exists

RemoveProfileOk ==
    /\ pc = "remove_profile"
    /\ profile_exists' =
          ProfileAfterRemove(policy_driver, profile_exists, endpoints)
    /\ Terminate(0, "")
    /\ Called("remove_profile", "ok")
    /\ Frame
    /\ UNCHANGED <<ipam_alloc, endpoints, veths, ipam_vars, endpoint, stdout>>

RemoveProfileFails ==
    /\ pc = "remove_profile"
    /\ policy_driver = "DefaultPolicyDriver"
    /\ Terminate(1, "remove_profile")
    /\ Called("remove_profile", "error")
    /\ Frame
    /\ UNCHANGED <<ext_vars, ipam_vars, endpoint, stdout>>

(***************************************************************************)
(* The specification.                                                      *)
(***************************************************************************)
Next ==
    \/ Main
    \/ Execute
    \/ AddProbe
    \/ AssignIpNotFound
    \/ AssignIpSpawnError
    \/ AssignIpChildFails
    \/ AssignIpChildOk
    \/ CreateEndpointOk
    \/ CreateEndpointFails
    \/ ProvisionVethOk
    \/ ProvisionVethFails
    \/ SetEndpointOk
    \/ SetEndpointFails
    \/ SetProfileOk
    \/ SetProfileFails
    \/ PrintResult
    \/ ReleaseIpNotFound
    \/ ReleaseIpSpawnError
    \/ ReleaseIpChildFails
    \/ ReleaseIpChildOk
    \/ GetEndpointNotFound
    \/ GetEndpointAmbiguous
    \/ GetEndpointFound
    \/ RemoveVethOk
    \/ RemoveVethFails
    \/ RemoveEndpoint
    \/ RemoveProfileOk
    \/ RemoveProfileFails

Spec == Init /\ [][Next]_vars

(***************************************************************************)
(* parse_cni_args on its own: the constructor's call of it on every value  *)
(* of CNI_ARGS of at most MaxArgsLen characters, well formed or not, over  *)
(* two characters of the classes, the space, '=' and ';'.                  *)
(***************************************************************************)
ArgsAlphabet == {"a", "b", " ", "=", ";"}
ArgsStrings == UNION {[1..n -> ArgsAlphabet] : n \in 0..MaxArgsLen}

ParseInit ==
    /\ env \in {FullEnv(raw) : raw \in ArgsStrings}
    /\ InitButEnv

ParseArgs ==
    /\ pc = "idle"
    /\ cni_args' = ParseCniArgs(env.CNI_ARGS)
    /\ pc' = "parsed"
    /\ UNCHANGED <<ext_vars, inv, env, command, container_id, cni_path,
                   network_name, policy_driver, container_engine, ipam_vars,
                   endpoint, rc, stdout, calls, fail_step, start_ext, prev>>

ParseNext == ParseArgs

ParseSpec == ParseInit /\ [][ParseNext]_vars

(***************************************************************************)
(* Vocabulary of the properties.                                           *)
(***************************************************************************)
Done == pc = "done"

\* An invocation that was constructed and has run add, or delete, to its end.
Constructed == fail_step \notin {"environment", "policy_driver"}
AddDone == Done /\ command = CNI_CMD_ADD /\ Constructed
DeleteDone == Done /\ command = CNI_CMD_DELETE /\ Constructed

\* How `cs` records the external calls: whether `op` was called, how often,
\* and whether it was called with outcome `res`.
DidIn(cs, op) == \E i \in 1..Len(cs) : cs[i][1] = op
CountIn(cs, op) == Cardinality({i \in 1..Len(cs) : cs[i][1] = op})
OutcomeIn(cs, op, res) == \E i \in 1..Len(cs) : cs[i] = <<op, res>>
Did(op) == DidIn(calls, op)
Count(op) == CountIn(calls, op)
Outcome(op, res) == OutcomeIn(calls, op, res)

\* The steps of ADD after which something this invocation created exists.
AddLateSteps == {"ipam_parse", "create_endpoint", "provision_veth",
                 "set_endpoint", "set_profile"}

\* Nothing this invocation of ADD created is left.
NothingLeft ==
    /\ container_id \notin ipam_alloc
    /\ \A e \in endpoints : e.id # inv
    /\ inv \notin veths

(***************************************************************************)
(* C1: an ADD that fails at IPAM result parsing, create_endpoint, veth     *)
(* provisioning, set_endpoint or set_profile terminates with nothing it    *)
(* created left: the IPAM allocation released, no endpoint of this         *)
(* invocation in the datastore, no veth for it on the host.                *)
(***************************************************************************)
C1_FailedAddLeavesNothing ==
    (AddDone /\ fail_step \in AddLateSteps) => NothingLeft

(***************************************************************************)
(* C2: when IPAM assign succeeds and create_endpoint fails, the plugin     *)
(* invokes the IPAM binary again to release before it terminates, exits    *)
(* with 1 and leaves no endpoint and no veth.                              *)
(***************************************************************************)
C2_CreateEndpointFailureReleases ==
    (AddDone /\ fail_step = "create_endpoint") =>
        /\ Count("ipam") = 2
        /\ rc = 1
        /\ \A e \in endpoints : e.id # inv
        /\ inv \notin veths

(***************************************************************************)
(* C3: when the IPAM child exits 0 and its output is not JSON, has no      *)
(* ip4.ip or holds a malformed CIDR, ADD exits non-zero, calls neither     *)
(* create_endpoint nor provision_veth, and invokes the IPAM binary again   *)
(* to release before it terminates.                                        *)
(***************************************************************************)
C3_BadIpamOutputReleases ==
    (AddDone /\ fail_step = "ipam_parse") =>
        /\ rc # 0
        /\ ~Did("create_endpoint")
        /\ ~Did("provision_veth")
        /\ Count("ipam") = 2

\* The endpoints the workload had when this invocation started.
StartEndpoints == {e \in start_ext.eps : e.wl = container_id}

(***************************************************************************)
(* C4: every DELETE, whatever step of it failed, terminates with no        *)
(* endpoint under the workload key, no veth named after an endpoint of the *)
(* workload on the host, and the IPAM binary invoked exactly once.         *)
(***************************************************************************)
C4_DeleteFinalState ==
    DeleteDone =>
        /\ EndpointsOf(container_id) = {}
        /\ \A e \in StartEndpoints : e.id \notin veths
        /\ Count("ipam") = 1

(***************************************************************************)
(* C5: on a DELETE that found its endpoint, an error of remove_veth, a     *)
(* NotFound of remove_workload or an error of remove_profile stops         *)
(* nothing: remove_workload and remove_profile are still called and the    *)
(* exit code is 0.                                                         *)
(***************************************************************************)
C5_DeleteGoesOnPastErrors ==
    (DeleteDone /\ Outcome("get_endpoint", "ok")) =>
        /\ Did("remove_workload")
        /\ Did("remove_profile")
        /\ rc = 0

\* The IPAM release of this DELETE failed: the child exited non-zero, or
\* the call failed before (no binary found, the spawn failed).
ReleaseFailed ==
    \/ Outcome("ipam", "failed")
    \/ fail_step \in {"ipam_not_found", "ipam_spawn"}

(***************************************************************************)
(* C6: a DELETE whose IPAM release failed still looks the endpoint up,     *)
(* and, having found one, calls remove_veth, remove_workload and           *)
(* remove_profile; the failed release alone does not make the exit code    *)
(* non-zero.                                                               *)
(***************************************************************************)
C6_ReleaseFailureOnlyLogged ==
    (DeleteDone /\ ReleaseFailed) =>
        /\ Did("get_endpoint")
        /\ Outcome("get_endpoint", "ok") =>
              Did("remove_veth") /\ Did("remove_workload")
                 /\ Did("remove_profile")
        /\ rc # 0 => fail_step \in {"ambiguous", "remove_veth",
                                    "remove_profile"}

\* This invocation is a DELETE that has terminated, and the invocation
\* before it was an ADD for the same container id, started with the same
\* CNI_ARGS, CNI_PATH and network config.
DeleteDoneAfterAdd ==
    /\ DeleteDone
    /\ prev # None
    /\ prev.command = CNI_CMD_ADD
    /\ prev.same

CleanBeforeAdd ==
    /\ container_id \notin prev.start_ext.alloc
    /\ \A e \in prev.start_ext.eps : e.wl # container_id
    /\ prev.start_ext.profile => \E e \in prev.start_ext.eps : e.prof

C8_DeleteCleansFailedAdd ==
    (DeleteDoneAfterAdd /\ prev.rc # 0 /\ ~ReleaseFailed) =>
        /\ container_id \notin ipam_alloc
        /\ EndpointsOf(container_id) = {}
        /\ \A e \in StartEndpoints : e.id \notin veths

(***************************************************************************)
(* C9: a DELETE whose get_endpoint reports NotFound terminates with exit   *)
(* code 0, has invoked the IPAM binary once to release, and has changed    *)
(* nothing in the datastore and removed no veth.                           *)
(***************************************************************************)
C9_DeleteUnknownContainer ==
    (DeleteDone /\ Outcome("get_endpoint", "NotFound")) =>
        /\ rc = 0
        /\ Count("ipam") = 1
        /\ calls[1][1] = "ipam"
        /\ endpoints = start_ext.eps
        /\ profile_exists = start_ext.profile
        /\ veths = start_ext.veths
        /\ ~Did("remove_veth")
        /\ ~Did("remove_workload")
        /\ ~Did("remove_profile")

\* Such a DELETE has terminated, on a host that holds another container's
\* endpoint and veth.
C9_Witness ==
    /\ DeleteDone
    /\ Outcome("get_endpoint", "NotFound")
    /\ rc = 0
    /\ endpoints # {}
    /\ veths # {}

(***************************************************************************)
(* C10: once the engine probe of an ADD has reported host networking, the  *)
(* plugin has terminated with exit code 0 and empty standard output, and   *)
(* has neither invoked the IPAM binary nor created or updated an endpoint, *)
(* provisioned a veth or set a profile.                                    *)
(***************************************************************************)
C10_HostNetworkingShortCircuit ==
    (command = CNI_CMD_ADD /\ Outcome("uses_host_networking", "host")) =>
        /\ Done
        /\ rc = 0
        /\ stdout = <<>>
        /\ calls = << <<"uses_host_networking", "host">> >>
        /\ External = start_ext

\* An ADD for a host-networked container has terminated.
C10_Witness ==
    /\ AddDone
    /\ Outcome("uses_host_networking", "host")
    /\ container_engine = "DockerEngine"

(***************************************************************************)
(* C11: standard output is non-empty only when the command is ADD and the  *)
(* probe answered no and the IPAM call, create_endpoint, the veth          *)
(* provisioning, set_endpoint and set_profile all succeeded; it then holds *)
(* one document, written by one print, which denotes the same JSON value   *)
(* as the standard output of the IPAM child, and the exit code is 0.       *)
(***************************************************************************)
AddSteps == <<"ipam", "create_endpoint", "provision_veth", "set_endpoint",
              "set_profile">>

C11_StdoutOnlyOnFullAdd ==
    stdout # <<>> =>
        /\ command = CNI_CMD_ADD
        /\ Done /\ rc = 0
        /\ Outcome("uses_host_networking", "no")
        /\ \A i \in 1..Len(AddSteps) : Outcome(AddSteps[i], "ok")
        /\ Len(stdout) = 1
        /\ Count("print") = 1
        /\ ipam_return[1] = 0
        /\ JsonLoads(stdout[1]) = JsonLoads(ipam_return[2])

\* An ADD has printed its result; the IPAM child had written the same
\* document without the spaces json.dumps puts after ':'.
C11_Witness ==
    /\ stdout # <<>>
    /\ AddDone
    /\ ipam_return[2] # stdout[1]
    /\ JsonLoads(stdout[1]) = JsonLoads(ipam_return[2])

(***************************************************************************)
(* C12: a terminated invocation has exit code 0 exactly when its operation *)
(* succeeded (an ADD that printed its result or found host networking, a   *)
(* DELETE that found no endpoint or whose remove_profile returned); an ADD *)
(* whose IPAM child exited with a non-zero code has that code; every other *)
(* failure has exit code 1; and a failure has written nothing to standard  *)
(* output.                                                                 *)
(***************************************************************************)
Succeeded ==
    \/ /\ command = CNI_CMD_ADD
       /\ \/ Outcome("uses_host_networking", "host")
          \/ Outcome("print", "ok")
    \/ /\ command = CNI_CMD_DELETE
       /\ \/ Outcome("get_endpoint", "NotFound")
          \/ Outcome("remove_profile", "ok")

IpamChildFailedAdd == command = CNI_CMD_ADD /\ Outcome("ipam", "failed")

C12_ExitCodes ==
    Done =>
        /\ rc = 0 <=> Succeeded
        /\ IpamChildFailedAdd => (rc = ipam_return[1] /\ rc # 0)
        /\ (rc # 0 /\ ~IpamChildFailedAdd) => rc = 1
        /\ rc # 0 => stdout = <<>>

\* An ADD has terminated with the exit code of its IPAM child, which is
\* neither 0 nor 1.
C12_Witness ==
    /\ AddDone
    /\ IpamChildFailedAdd
    /\ rc = ipam_return[1]
    /\ rc \notin {0, 1}

(***************************************************************************)
(* C13: once get_endpoint of a DELETE has reported more than one endpoint  *)
(* under the workload key, the plugin has terminated with exit code 1; it  *)
(* has invoked the IPAM binary exactly once, before the lookup, and has    *)
(* called none of remove_veth, remove_workload and remove_profile, so the  *)
(* endpoints, the veths and the profile are as at its start.               *)
(***************************************************************************)
C13_AmbiguousDelete ==
    (command = CNI_CMD_DELETE /\ Outcome("get_endpoint", "Ambiguous")) =>
        /\ Done
        /\ rc = 1
        /\ Count("ipam") = 1
        /\ Len(calls) = 2
        /\ calls[1][1] = "ipam"
        /\ calls[2][1] = "get_endpoint"
        /\ ~Did("remove_veth")
        /\ ~Did("remove_workload")
        /\ ~Did("remove_profile")
        /\ endpoints = start_ext.eps
        /\ veths = start_ext.veths
        /\ profile_exists = start_ext.profile

\* A DELETE has terminated on a workload key that holds two endpoints.
C13_Witness ==
    /\ DeleteDone
    /\ Outcome("get_endpoint", "Ambiguous")
    /\ Cardinality(EndpointsOf(container_id)) = 2
    /\ rc = 1

(***************************************************************************)
(* C14: an invocation, ADD or DELETE, whose constructor builds the         *)
(* per-network policy driver on a network name with a character outside    *)
(* [A-Za-z0-9._-] has terminated with exit code 1 without any call to a    *)
(* collaborator: the IPAM binary was not looked up or invoked, and the     *)
(* endpoints, veths, allocations and profile are as at its start.          *)
(***************************************************************************)
NameRejected ==
    /\ inv > 0
    /\ EnvNames \subseteq DOMAIN env
    /\ K8S_POD_NAME \notin DOMAIN cni_args
    /\ ~ValidNetworkName(network_name)

C14_InvalidNetworkName ==
    NameRejected =>
        /\ Done
        /\ rc = 1
        /\ calls = <<>>
        /\ plugin_path = <<>>
        /\ ipam_return = None
        /\ stdout = <<>>
        /\ External = start_ext

\* A DELETE with a rejected network name has terminated, for a container
\* that has an endpoint, a veth and an allocation.
C14_Witness ==
    /\ NameRejected
    /\ Done
    /\ command = CNI_CMD_DELETE
    /\ container_id \in ipam_alloc
    /\ \E e \in EndpointsOf(container_id) : e.id \in veths

(***************************************************************************)
(* C15: a DELETE whose environment lacks CNI_NETNS, CNI_IFNAME or CNI_ARGS *)
(* does not fail on the missing variable: it is constructed and runs       *)
(* delete, whose first step looks up the IPAM binary.                      *)
(***************************************************************************)
C15_DeleteWithoutAddOnlyEnv ==
    (Done /\ command = CNI_CMD_DELETE /\ ~(EnvNames \subseteq DOMAIN env)) =>
        /\ fail_step # "environment"
        /\ (fail_step # "policy_driver" =>
               (Did("ipam") \/ fail_step \in {"ipam_not_found", "ipam_spawn"}))

(***************************************************************************)
(* C16: the calls of an ADD are a prefix of: engine probe, IPAM assign,    *)
(* create_endpoint, veth provisioning, set_endpoint, set_profile, print of *)
(* the result; every call but the last one made has succeeded, and         *)
(* create_endpoint is called only on an IPAM result with a valid address.  *)
(* An ADD that printed its result has called set_endpoint exactly once,    *)
(* right after the veth provisioning and right before set_profile.         *)
(***************************************************************************)
AddOrder == <<"uses_host_networking", "ipam", "create_endpoint",
              "provision_veth", "set_endpoint", "set_profile", "print">>
GoesOn(op) == IF op = "uses_host_networking" THEN "no" ELSE "ok"

C16_AddOrder ==
    command = CNI_CMD_ADD =>
        /\ Len(calls) <= Len(AddOrder)
        /\ \A i \in 1..Len(calls) : calls[i][1] = AddOrder[i]
        /\ \A i \in 1..(Len(calls) - 1) : calls[i][2] = GoesOn(calls[i][1])
        /\ Did("create_endpoint") =>
              (HasIp4Ip(ipam_result) /\ ValidCidr(ipam_result.ip4.ip))
        /\ Outcome("print", "ok") =>
              /\ Count("set_endpoint") = 1
              /\ calls[4] = <<"provision_veth", "ok">>
              /\ calls[5] = <<"set_endpoint", "ok">>
              /\ calls[6] = <<"set_profile", "ok">>

\* An ADD has made all seven calls and terminated.
C16_Witness ==
    /\ AddDone
    /\ Len(calls) = Len(AddOrder)
    /\ Count("set_endpoint") = 1
    /\ \E e \in endpoints : e.id = inv /\ e.mac

(***************************************************************************)
(* C17: the calls of a DELETE are a prefix of: IPAM release, get_endpoint, *)
(* remove_veth, remove_workload, remove_profile, so each is made at most   *)
(* once and the release comes before the lookup; the three removals are    *)
(* made only after a lookup that returned an endpoint, the workload key    *)
(* holding exactly one endpoint when the invocation started.               *)
(***************************************************************************)
DeleteOrder == <<"ipam", "get_endpoint", "remove_veth", "remove_workload",
                 "remove_profile">>
Removals == {"remove_veth", "remove_workload", "remove_profile"}

C17_DeleteOrder ==
    command = CNI_CMD_DELETE =>
        /\ Len(calls) <= Len(DeleteOrder)
        /\ \A i \in 1..Len(calls) : calls[i][1] = DeleteOrder[i]
        /\ \A op \in Removals : Count(op) <= 1
        /\ (\E op \in Removals : Did(op)) =>
              /\ calls[2] = <<"get_endpoint", "ok">>
              /\ Cardinality(StartEndpoints) = 1
              /\ \A e \in StartEndpoints : e.id = endpoint

\* A DELETE has made all five calls and terminated, although its release
\* failed and another container's endpoint is in the datastore.
C17_Witness ==
    /\ DeleteDone
    /\ Len(calls) = Len(DeleteOrder)
    /\ Outcome("ipam", "failed")
    /\ endpoints # {}

(***************************************************************************)
(* C18: throughout an invocation the policy driver and the engine probe    *)
(* are the pair the parsed CNI_ARGS select: with the key K8S_POD_NAME the  *)
(* Kubernetes driver and the Docker engine, without it the per-network     *)
(* driver and the default engine; the only other outcome is a constructor  *)
(* that failed before it built the engine, on the environment or on the    *)
(* network name.  Command, container id, CNI_PATH and the steps of the     *)
(* invocation have no part in the selection.                               *)
(***************************************************************************)
Selection == <<policy_driver, container_engine>>

C18_VariantSelection ==
    inv > 0 =>
        IF ~Constructed
        THEN Selection \in {<<"", "">>, <<"ValueError", "">>}
        ELSE /\ cni_args = CniArgsOf[env.CNI_ARGS]
             /\ K8S_POD_NAME \in DOMAIN cni_args =>
                   Selection =
                       <<"KubernetesDefaultPolicyDriver", "DockerEngine">>
             /\ K8S_POD_NAME \notin DOMAIN cni_args =>
                   Selection = <<"DefaultPolicyDriver", "DefaultEngine">>

\* An ADD with K8S_POD_NAME in CNI_ARGS has run to its end with the
\* Kubernetes pair, on a network name the per-network driver would reject.
C18_Witness ==
    /\ AddDone
    /\ K8S_POD_NAME \in DOMAIN cni_args
    /\ Selection = <<"KubernetesDefaultPolicyDriver", "DockerEngine">>
    /\ ~ValidNetworkName(network_name)
    /\ Outcome("print", "ok")

(***************************************************************************)
(* The grammar of CNI_ARGS, (KEY=VALUE)(;KEY=VALUE)*, read off the string  *)
(* without the regular expression: the pieces between the ';', each with   *)
(* one '=' that has class characters, and at least one, on either side.    *)
(***************************************************************************)
Cuts(s, sep) == {0, Len(s) + 1} \cup {i \in 1..Len(s) : s[i] = sep}
PiecesBetween(s, sep) ==
    {p \in Cuts(s, sep) \X Cuts(s, sep) :
        p[1] < p[2] /\ ~\E c \in Cuts(s, sep) : p[1] < c /\ c < p[2]}
Pieces(s) == PiecesBetween(s, ";")
EqualsIn(s, p) == {i \in (p[1] + 1)..(p[2] - 1) : s[i] = "="}
EqualsOf(s, p) == CHOOSE i \in EqualsIn(s, p) : TRUE
WellFormedPiece(s, p) ==
    /\ Cardinality(EqualsIn(s, p)) = 1
    /\ p[1] + 1 < EqualsOf(s, p)
    /\ EqualsOf(s, p) < p[2] - 1
    /\ \A i \in (p[1] + 1)..(p[2] - 1) : s[i] \in ArgsClass \cup {"="}
MatchesGrammar(s) == s # <<>> /\ \A p \in Pieces(s) : WellFormedPiece(s, p)
KeyOf(s, p) == SubSeq(s, p[1] + 1, EqualsOf(s, p) - 1)
ValueOf(s, p) == SubSeq(s, EqualsOf(s, p) + 1, p[2] - 1)

\* The entries of a mapping, and the (KEY, VALUE) groups of a string of the
\* grammar.
Entries(d) == {<<k, d[k]>> : k \in DOMAIN d}
Groups(s) == {<<KeyOf(s, p), ValueOf(s, p)>> : p \in Pieces(s)}

\* A piece of s after which no piece has the same key once stripped.
LastOfItsKey(s, p) ==
    ~\E q \in Pieces(s) :
        q[1] > p[1] /\ Strip(KeyOf(s, q)) = Strip(KeyOf(s, p))

(***************************************************************************)
(* C19, as stated: for a CNI_ARGS string of the grammar the entries of the *)
(* mapping parse_cni_args returns are exactly the (KEY, VALUE) groups, and *)
(* the empty string gives the empty mapping.                               *)
(***************************************************************************)
C19_EntriesAreTheGroups ==
    pc = "parsed" =>
        /\ MatchesGrammar(env.CNI_ARGS) =>
              Entries(cni_args) = Groups(env.CNI_ARGS)
        /\ env.CNI_ARGS = <<>> => cni_args = EmptyDict

(***************************************************************************)
(* C19, amended: for a CNI_ARGS string of the grammar the regular          *)
(* expression captures exactly the groups of the grammar, one each; the    *)
(* keys of the mapping are the keys of the groups without their leading    *)
(* and trailing spaces, and each key's value is the value, without its     *)
(* leading and trailing spaces, of the last group with that key.  The      *)
(* empty string gives the empty mapping.                                   *)
(***************************************************************************)
C19_EntriesAreTheStrippedGroups ==
    pc = "parsed" =>
        /\ MatchesGrammar(env.CNI_ARGS) =>
              /\ {FindAll(env.CNI_ARGS)[i] : i \in DOMAIN FindAll(env.CNI_ARGS)}
                    = Groups(env.CNI_ARGS)
              /\ Len(FindAll(env.CNI_ARGS)) = Cardinality(Pieces(env.CNI_ARGS))
              /\ DOMAIN cni_args =
                    {Strip(KeyOf(env.CNI_ARGS, p)) : p \in Pieces(env.CNI_ARGS)}
              /\ \A p \in Pieces(env.CNI_ARGS) :
                    LastOfItsKey(env.CNI_ARGS, p) =>
                        cni_args[Strip(KeyOf(env.CNI_ARGS, p))]
                            = Strip(ValueOf(env.CNI_ARGS, p))
        /\ env.CNI_ARGS = <<>> => cni_args = EmptyDict

\* A string of the grammar with two groups has been parsed into a mapping
\* whose entries are not the groups.
C19_Witness ==
    /\ pc = "parsed"
    /\ MatchesGrammar(env.CNI_ARGS)
    /\ Cardinality(Pieces(env.CNI_ARGS)) = 2
    /\ Entries(cni_args) # Groups(env.CNI_ARGS)

(***************************************************************************)
(* C20: the IPAM binary an invocation looks up is <dir>/<ipam.type> for    *)
(* the leftmost directory of CNI_PATH, split on ':', that holds a regular  *)
(* file of that name, and no other path is ever used; a child is spawned   *)
(* only for a binary that was found.  When no directory holds the file the *)
(* invocation, ADD or DELETE, has terminated with exit code 1 at the       *)
(* lookup: no child was spawned and nothing was changed or printed.        *)
(***************************************************************************)
\* The directories of CNI_PATH that hold the file, as pieces of the path.
HoldingPieces(path) ==
    {p \in PiecesBetween(path, ":") :
        SubSeq(path, p[1] + 1, p[2] - 1) \in IpamDirs}
LeftmostHolding(path) ==
    CHOOSE p \in HoldingPieces(path) :
        \A q \in HoldingPieces(path) : p[1] <= q[1]
ExpectedPlugin(path) ==
    IF HoldingPieces(path) = {} THEN <<>>
    ELSE LET p == LeftmostHolding(path)
         IN  SubSeq(path, p[1] + 1, p[2] - 1) \o <<"/", IpamType>>

ExpectedPluginOf == [path \in CniPaths |-> ExpectedPlugin(path)]

\* _call_ipam_plugin has run in this invocation.
LookedUp == Did("ipam") \/ fail_step \in {"ipam_not_found", "ipam_spawn"}

C20_IpamLookup ==
    /\ (plugin_path # <<>> \/ LookedUp) =>
          plugin_path = ExpectedPluginOf[cni_path]
    /\ Did("ipam") => (plugin_path # <<>> /\ ipam_return # None)
    /\ (LookedUp /\ plugin_path = <<>>) =>
          /\ Done
          /\ rc = 1
          /\ ~Did("ipam")
          /\ ipam_return = None
          /\ stdout = <<>>
          /\ External = start_ext

\* An invocation has spawned the binary of the second directory of a
\* CNI_PATH whose second and third directories both hold the file.
C20_Witness ==
    /\ Did("ipam")
    /\ Cardinality(HoldingPieces(cni_path)) = 2
    /\ Cardinality(PiecesBetween(cni_path, ":")) = 3
    /\ plugin_path = <<"/opt/cni", "/", IpamType>>

(***************************************************************************)
(* C21: an invocation whose CNI_COMMAND is neither ADD nor DEL makes no    *)
(* call to a collaborator, does not look up or invoke the IPAM binary,     *)
(* writes nothing to standard output and leaves allocations, endpoints,    *)
(* veths and profile as at its start; once started it is either about to   *)
(* dispatch or has terminated with exit code 1, and when its constructor   *)
(* succeeded it is the dispatch in _execute that ended it.                 *)
(***************************************************************************)
OtherCommand == inv > 0 /\ command \notin {CNI_CMD_ADD, CNI_CMD_DELETE}

C21_OtherCommand ==
    OtherCommand =>
        /\ pc \in {"execute", "done"}
        /\ Done => rc = 1
        /\ (Done /\ Constructed) => fail_step = "command"
        /\ calls = <<>>
        /\ plugin_path = <<>>
        /\ ipam_return = None
        /\ endpoint = NoEndpoint
        /\ stdout = <<>>
        /\ External = start_ext

\* An invocation with another command has been ended by the dispatch, on a
\* host where an earlier ADD for the same container id left an allocation,
\* an endpoint and a veth.
C21_Witness ==
    /\ OtherCommand
    /\ Done
    /\ fail_step = "command"
    /\ rc = 1
    /\ container_id \in ipam_alloc
    /\ \E e \in EndpointsOf(container_id) : e.id \in veths

=============================================================================
